---- MODULE Spec2Model ----
(***************************************************************************)
(* FlightControl.py: metrics aggregation, day rollover and dirty-flag      *)
(* gated persistence of the flight statistics display.                     *)
(*                                                                         *)
(* Python strings are sequences of one-character strings, so that strip()  *)
(* and concatenation are computed and not assumed.  Temperatures are kept  *)
(* in hundredths of a degree (999 is 99900, -273.15 is -27315).            *)
(* A file is the empty sequence when absent and <<content>> when present.  *)
(***************************************************************************)
EXTENDS Integers, Sequences, FiniteSets, TLC

VARIABLES
    FLIGHT_METRICS,          \* the global metrics dictionary
    ICAO_FLIGHT_DICTIONARY,  \* the daily ledger: date slot, then identifiers
    DIRTY_DATA_FLAG,         \* internalData needs writing
    backLightStatus,         \* _backLightStatus
    specialFlights,          \* loop's local: what parseFlightData returned
    internalDataFile,        \* PATH_INTERNAL_DATA_FILE
    icaoFile,                \* PATH_INTERNAL_ICAO_FILE
    statsFile,               \* PATH_INTERNAL_STATS_FILE, one element per line
    today,                   \* the system clock's calendar day
    minute,                  \* the system clock's minute within the day
    sensorPin,               \* the level GPIO.input(sensorPin) reads
    pc,                      \* position of the main thread
    cbpc,                    \* position of the GPIO callback thread
    counter,                 \* loop's local: the page the display has come to
    sleepCounter,            \* loop's local: iterations with the backlight off
    lcd                      \* the text on the two lines of the display

vars == <<FLIGHT_METRICS, ICAO_FLIGHT_DICTIONARY, DIRTY_DATA_FLAG,
          backLightStatus, specialFlights, internalDataFile, icaoFile,
          statsFile, today, minute, sensorPin, pc, cbpc, counter,
          sleepCounter, lcd>>

metricsVars == <<FLIGHT_METRICS, ICAO_FLIGHT_DICTIONARY>>
fileVars == <<internalDataFile, icaoFile, statsFile>>
clockVars == <<today, minute>>
loopVars == <<counter, sleepCounter>>
displayVars == <<counter, sleepCounter, lcd>>

----------------------------------------------------------------------------
(* Bounds *)

MaxDay == 2
MaxMinute == 1
MaxFeed == 1
\* the longest ledger followed: the date slot and two identifiers
MaxLedger == 3
\* the longest stats archive followed, in lines
MaxArchive == 2

----------------------------------------------------------------------------
(* Strings *)

Digit == <<"0", "1", "2", "3", "4", "5", "6", "7", "8", "9">>

RECURSIVE LStrip(_)
LStrip(s) ==
    IF s = <<>> THEN s
    ELSE IF Head(s) = " " THEN LStrip(Tail(s)) ELSE s

RECURSIVE RStrip(_)
RStrip(s) ==
    IF s = <<>> THEN s
    ELSE IF s[Len(s)] = " " THEN RStrip(SubSeq(s, 1, Len(s) - 1)) ELSE s

\* str.strip()
Strip(s) == RStrip(LStrip(s))

\* x in list
InList(x, list) == \E i \in 1..Len(list) : list[i] = x

\* datetime.now().strftime('%a %d %b %Y'): one string per calendar day
DateString(d) == <<"d", "a", "y", Digit[d + 1]>>

\* datetime.now().strftime('%H:%M')
TimeString(m) == <<"0", "0", ":", "0", Digit[m + 1]>>

----------------------------------------------------------------------------
(* The feed: aircraft.json records *)

Absent == [p |-> FALSE, num |-> FALSE, v |-> 0]
Num(n) == [p |-> TRUE, num |-> TRUE, v |-> n]
NonNumeric == [p |-> TRUE, num |-> FALSE, v |-> 0]

\* optional string fields are <<>> when absent and <<string>> when present
Aircraft(hex, flight, seen, seen_pos, squawk) ==
    [hex |-> hex, flight |-> flight, seen |-> seen, seen_pos |-> seen_pos,
     squawk |-> squawk]

HexA == <<"A">>
HexBPadded == <<"B", " ">>
FlightName == <<"R", "1", " ">>

SPECIAL_SQUAWK_CODES == << <<"7", "7", "0", "0">>, <<"7", "6", "0", "0">>,
                           <<"7", "5", "0", "0">> >>

\* a named aircraft with message and position ages, an unnamed one whose
\* identifier is padded, and one with a position age but no message age
CoreRecords ==
    { Aircraft(<<HexA>>, <<FlightName>>, Num(10), Num(10), <<>>),
      Aircraft(<<HexBPadded>>, <<>>, Num(10), Absent, <<>>),
      Aircraft(<<HexA>>, <<>>, Absent, Num(10), <<>>) }

RECURSIVE SeqsUpTo(_, _)
SeqsUpTo(S, n) ==
    IF n = 0 THEN { <<>> }
    ELSE LET shorter == SeqsUpTo(S, n - 1)
         IN shorter \cup { Append(s, x) : s \in shorter, x \in S }

CoreFeeds == SeqsUpTo(CoreRecords, MaxFeed)

\* feeds of one kind of aircraft
PlainFeeds ==
    SeqsUpTo({Aircraft(<<HexA>>, <<FlightName>>, Num(10), Num(10), <<>>)},
             MaxFeed)

\* feeds of that aircraft and of one with a position age but no message age
RestartFeeds ==
    SeqsUpTo({Aircraft(<<HexA>>, <<FlightName>>, Num(10), Num(10), <<>>),
              Aircraft(<<HexA>>, <<>>, Absent, Num(10), <<>>)},
             MaxFeed)

HexC == <<"C">>
HexD == <<"D">>
Squawk7700 == <<"7", "7", "0", "0">>
Squawk7600 == <<"7", "6", "0", "0">>
Squawk7500 == <<"7", "5", "0", "0">>
Squawk1200 == <<"1", "2", "0", "0">>

\* the shapes of record the loop body tells apart: the named aircraft; an
\* identifier with no ages; special codes on a named aircraft, on an unnamed
\* one last heard over a minute ago, and on a record with neither name nor
\* identifier; a message age that is not a number; a position age with no
\* message age; and a code that is not special
ShapeRecords ==
    { Aircraft(<<HexA>>, <<FlightName>>, Num(10), Num(10), <<>>),
      Aircraft(<<HexC>>, <<>>, Absent, Absent, <<>>),
      Aircraft(<<HexA>>, <<FlightName>>, Num(10), Absent, <<Squawk7700>>),
      Aircraft(<<HexD>>, <<>>, Num(70), Absent, <<Squawk7600>>),
      Aircraft(<<>>, <<>>, Num(10), Absent, <<Squawk7500>>),
      Aircraft(<<HexA>>, <<>>, NonNumeric, Absent, <<>>),
      Aircraft(<<HexA>>, <<>>, Absent, Num(10), <<>>),
      Aircraft(<<HexA>>, <<>>, Num(10), Absent, <<Squawk1200>>) }

ShapeFeeds == SeqsUpTo(ShapeRecords, MaxFeed)

----------------------------------------------------------------------------
(* The metrics dictionary *)

\* the module-level literal the program starts from
InitialMetrics ==
    [flightCount |-> 0, flightWithName |-> 0, flightInvalid |-> 0,
     flightSeen |-> 0, flightSeenPos |-> 0, flightMax |-> 0,
     flightMaxPos |-> 0, flightMaxAllTime |-> 0, flightMaxPosAllTime |-> 0,
     flightDailyTotal |-> 0, flightBestDayTotal |-> 0,
     flightBestDayDate |-> <<>>, lowestRoomHumidity |-> 999,
     highestRoomHumidity |-> -1,
     todaysDate |-> <<"2", "0", "2", "1", "/", "0", "8", "/", "0", "7">>,
     max24 |-> 0,
     pirSensorLastTrigger |-> <<"2", "0", "2", "1", "/", "0", "8", "/", "0",
                                "7", " ", "0", "0", ":", "0", "0", ":", "0",
                                "0">>,
     lowestRoomTemp |-> 9900, highestRoomTemp |-> -23715]

InitialLedger == << <<>> >>

defaultValues(fm, dateNow) ==
    [fm EXCEPT !.flightCount = 0, !.flightWithName = 0, !.flightSeen = 0,
               !.flightSeenPos = 0, !.flightInvalid = 0, !.flightMax = 0,
               !.flightMaxPos = 0, !.flightMaxPosAllTime = 0,
               !.flightMaxAllTime = 0, !.flightDailyTotal = 0, !.max24 = 0,
               !.lowestRoomTemp = 99900, !.highestRoomTemp = -27315,
               !.todaysDate = dateNow, !.flightBestDayDate = dateNow,
               !.flightBestDayTotal = 0, !.pirSensorLastTrigger = dateNow]

clearFlightMetrics(fm) ==
    [fm EXCEPT !.flightCount = 0, !.flightWithName = 0, !.flightSeen = 0,
               !.flightSeenPos = 0, !.flightInvalid = 0]

\* the reset also clears the all-time maxima
clearFlightMetricsDailyCutoverAllTime(fm, dateNow) ==
    [fm |-> [clearFlightMetrics(fm) EXCEPT
                 !.flightMax = 0, !.flightMaxPos = 0, !.flightDailyTotal = 0,
                 !.flightMaxAllTime = 0, !.flightMaxPosAllTime = 0,
                 !.lowestRoomTemp = 100000, !.highestRoomTemp = -27315,
                 !.todaysDate = dateNow, !.flightBestDayTotal = 0],
     ledger |-> <<dateNow>>]

\* the reset also clears the humidity extrema
clearFlightMetricsDailyCutoverHumidity(fm, dateNow) ==
    [fm |-> [clearFlightMetrics(fm) EXCEPT
                 !.flightMax = 0, !.flightMaxPos = 0, !.flightDailyTotal = 0,
                 !.lowestRoomTemp = 100000, !.highestRoomTemp = -27315,
                 !.lowestRoomHumidity = 999, !.highestRoomHumidity = -1,
                 !.todaysDate = dateNow, !.flightBestDayTotal = 0],
     ledger |-> <<dateNow>>]

\* returns the metrics and the ledger after the daily reset
clearFlightMetricsDailyCutover(fm, dateNow) ==
    [fm |-> [clearFlightMetrics(fm) EXCEPT
                 !.flightMax = 0, !.flightMaxPos = 0, !.flightDailyTotal = 0,
                 !.lowestRoomTemp = 100000, !.highestRoomTemp = -27315,
                 !.todaysDate = dateNow, !.flightBestDayTotal = 0],
     ledger |-> <<dateNow>>]

----------------------------------------------------------------------------
(* The archive line *)

RECURSIVE NatToStr(_)
NatToStr(n) ==
    IF n < 10 THEN <<Digit[n + 1]>>
    ELSE NatToStr(n \div 10) \o <<Digit[(n % 10) + 1]>>

\* str() of an integer
IntToStr(n) == IF n < 0 THEN <<"-">> \o NatToStr(0 - n) ELSE NatToStr(n)

\* '{:.2f}'.format() of a value held in hundredths
FormatTwoDecimals(c) ==
    LET a == IF c < 0 THEN 0 - c ELSE c
    IN (IF c < 0 THEN <<"-">> ELSE <<>>) \o NatToStr(a \div 100) \o <<".">>
       \o <<Digit[((a \div 10) % 10) + 1], Digit[(a % 10) + 1]>>

\* the maxima come before the position maxima
statStringMaxFirst(fm) ==
    << fm.todaysDate,
       IntToStr(fm.flightDailyTotal),
       IntToStr(fm.flightBestDayTotal),
       fm.flightBestDayDate,
       IntToStr(fm.flightMax),
       IntToStr(fm.flightMaxPos),
       IntToStr(fm.flightMaxAllTime),
       IntToStr(fm.flightMaxPosAllTime),
       FormatTwoDecimals(fm.lowestRoomTemp),
       FormatTwoDecimals(fm.highestRoomTemp) >>

\* statString: the fields in the order they are concatenated; the ", "
\* separators and the final newline are the sequence structure
statString(fm) ==
    << fm.todaysDate,
       IntToStr(fm.flightDailyTotal),
       IntToStr(fm.flightBestDayTotal),
       fm.flightBestDayDate,
       IntToStr(fm.flightMaxPos),
       IntToStr(fm.flightMax),
       IntToStr(fm.flightMaxPosAllTime),
       IntToStr(fm.flightMaxAllTime),
       FormatTwoDecimals(fm.lowestRoomTemp),
       FormatTwoDecimals(fm.highestRoomTemp) >>

----------------------------------------------------------------------------
(* Day rollover *)

\* the program state checkDailyCutover reads and writes
CutoverState(fm, ledger, dirty, stats) ==
    [fm |-> fm, ledger |-> ledger, dirty |-> dirty, stats |-> stats]

\* the stored date is not advanced by the reset
checkDailyCutoverKeepsDate(s, currentDate) ==
    IF currentDate # s.fm.todaysDate
    THEN LET reset == clearFlightMetricsDailyCutover(s.fm, currentDate)
         IN [fm |-> [reset.fm EXCEPT !.todaysDate = s.fm.todaysDate],
             ledger |-> reset.ledger, dirty |-> TRUE,
             stats |-> Append(s.stats, statString(s.fm))]
    ELSE s

\* the archive line is built after the reset
checkDailyCutoverLateString(s, currentDate) ==
    IF currentDate # s.fm.todaysDate
    THEN LET reset == clearFlightMetricsDailyCutover(s.fm, currentDate)
         IN [fm |-> reset.fm, ledger |-> reset.ledger, dirty |-> TRUE,
             stats |-> Append(s.stats, statString(reset.fm))]
    ELSE s

\* the reset is made without asking for a write
checkDailyCutoverNotDirty(s, currentDate) ==
    IF currentDate # s.fm.todaysDate
    THEN LET reset == clearFlightMetricsDailyCutover(s.fm, currentDate)
         IN [fm |-> reset.fm, ledger |-> reset.ledger, dirty |-> s.dirty,
             stats |-> Append(s.stats, statString(s.fm))]
    ELSE s

checkDailyCutover(s, currentDate) ==
    IF currentDate # s.fm.todaysDate
    THEN LET reset == clearFlightMetricsDailyCutover(s.fm, currentDate)
         IN [fm |-> reset.fm, ledger |-> reset.ledger, dirty |-> TRUE,
             stats |-> Append(s.stats, statString(s.fm))]
    ELSE s

----------------------------------------------------------------------------
(* parseFlightData: the loop over data['aircraft'] *)

\* 'key' in data, where data is the record's JSON text: a substring test,
\* so the key seen_pos also answers for seen.  No field value used in
\* the feeds holds a key name.
InData(key, i) ==
    CASE key = "seen" -> i.seen.p \/ i.seen_pos.p
      [] key = "seen_pos" -> i.seen_pos.p
      [] key = "hex" -> i.hex # <<>>
      [] key = "flight" -> i.flight # <<>>
      [] key = "squawk" -> i.squawk # <<>>

\* the state of one run of the loop; raised: an exception left the loop
ParseState(fm, ledger, special, raised) ==
    [fm |-> fm, ledger |-> ledger, special |-> special, raised |-> raised]

Raise(a) == [a EXCEPT !.raised = TRUE]

\* lines 356-362: parsed['seen'] is a KeyError when the key is missing,
\* numSec < 60 a TypeError when the value is not a number
SeenStep(a, i) ==
    IF ~InData("seen", i) THEN a
    ELSE IF ~i.seen.p \/ ~i.seen.num THEN Raise(a)
    ELSE LET counted == IF i.seen.v < 60
                        THEN [a EXCEPT !.fm.flightSeen = @ + 1]
                        ELSE a
         IN IF InData("hex", i) /\ ~InList(i.hex[1], counted.ledger)
            THEN [counted EXCEPT !.ledger = Append(@, Strip(i.hex[1]))]
            ELSE counted

\* lines 363-366
SeenPosStep(a, i) ==
    IF a.raised \/ ~InData("seen_pos", i) THEN a
    ELSE IF ~i.seen_pos.num THEN Raise(a)
    ELSE IF i.seen_pos.v < 60
         THEN [a EXCEPT !.fm.flightSeenPos = @ + 1]
         ELSE a

\* lines 367-370
FlightStep(a, i) ==
    IF a.raised THEN a
    ELSE IF InData("flight", i)
         THEN [a EXCEPT !.fm.flightWithName = @ + 1]
         ELSE [a EXCEPT !.fm.flightInvalid = @ + 1]

\* lines 374-379, from the k-th special code on
RECURSIVE SquawkLoop(_, _, _)
SquawkLoop(a, i, k) ==
    IF a.raised \/ k > Len(SPECIAL_SQUAWK_CODES) THEN a
    ELSE LET emergency == SPECIAL_SQUAWK_CODES[k]
             next ==
                 IF i.squawk[1] # emergency THEN a
                 ELSE IF InData("flight", i)
                 THEN [a EXCEPT !.special =
                          Append(@, Strip(emergency) \o <<":", " ">>
                                    \o Strip(i.flight[1]))]
                 ELSE IF i.hex = <<>> THEN Raise(a)
                 ELSE [a EXCEPT !.special =
                          Append(@, Strip(emergency) \o <<":", " ">>
                                    \o Strip(i.hex[1]))]
         IN SquawkLoop(next, i, k + 1)

\* lines 372-379
SquawkStep(a, i) ==
    IF a.raised \/ ~InData("squawk", i) THEN a ELSE SquawkLoop(a, i, 1)

\* one pass of the loop body, lines 353-379
ParseAircraft(a, i) ==
    SquawkStep(FlightStep(SeenPosStep(
        SeenStep([a EXCEPT !.fm.flightCount = @ + 1], i), i), i), i)

\* the loop of line 352, stopping at the first exception
RECURSIVE ParseLoop(_, _)
ParseLoop(a, aircraft) ==
    IF a.raised \/ aircraft = <<>> THEN a
    ELSE ParseLoop(ParseAircraft(a, Head(aircraft)), Tail(aircraft))

----------------------------------------------------------------------------
(* parseFlightData: after the loop, lines 381-404 *)

\* each step carries the metrics and the dirty flag
RaiseMaxPos(m) ==
    IF m.fm.flightMaxPos < m.fm.flightSeenPos
    THEN [fm |-> [m.fm EXCEPT !.flightMaxPos = m.fm.flightSeenPos],
          dirty |-> TRUE]
    ELSE m

RaiseMax(m) ==
    IF m.fm.flightMax < m.fm.flightSeen
    THEN [fm |-> [m.fm EXCEPT !.flightMax = m.fm.flightSeen], dirty |-> TRUE]
    ELSE m

\* the all-time maximum is left behind
RaiseMaxAllTimeSkipped(m) == m

RaiseMaxAllTime(m) ==
    IF m.fm.flightMax > m.fm.flightMaxAllTime
    THEN [fm |-> [m.fm EXCEPT !.flightMaxAllTime = m.fm.flightMax],
          dirty |-> TRUE]
    ELSE m

RaiseMaxPosAllTime(m) ==
    IF m.fm.flightMaxPos > m.fm.flightMaxPosAllTime
    THEN [fm |-> [m.fm EXCEPT !.flightMaxPosAllTime = m.fm.flightMaxPos],
          dirty |-> TRUE]
    ELSE m

\* line 398
SetDailyTotal(m, ledger) ==
    [m EXCEPT !.fm.flightDailyTotal = Len(ledger)]

\* lines 400-402
RaiseBestDay(m, dateNow) ==
    IF m.fm.flightBestDayTotal < m.fm.flightDailyTotal
    THEN [m EXCEPT !.fm.flightBestDayTotal = m.fm.flightDailyTotal,
                   !.fm.flightBestDayDate = dateNow]
    ELSE m

UpdateMaxima(fm, ledger, dirty, dateNow) ==
    RaiseBestDay(
        SetDailyTotal(
            RaiseMaxPosAllTime(RaiseMaxAllTime(RaiseMax(RaiseMaxPos(
                [fm |-> fm, dirty |-> dirty])))),
            ledger),
        dateNow)

----------------------------------------------------------------------------
(* parseFlightData as a whole *)

\* fetched: <<>> when the fetch fails, <<aircraft list>> when it succeeds.
\* outcome "failed": the early return of line 343; "raised": an exception
\* left the function; "done": the return of line 404.
parseFlightData(fm, ledger, dirty, stats, fetched, dateNow) ==
    LET cut == checkDailyCutover(CutoverState(fm, ledger, dirty, stats),
                                 dateNow)
    IN IF fetched = <<>>
       THEN [fm |-> cut.fm, ledger |-> cut.ledger, dirty |-> cut.dirty,
             stats |-> cut.stats, ret |-> << <<>> >>, outcome |-> "failed"]
       ELSE LET parsed == ParseLoop(
                    ParseState(clearFlightMetrics(cut.fm), cut.ledger, <<>>,
                               FALSE),
                    fetched[1])
                m == UpdateMaxima(parsed.fm, parsed.ledger, cut.dirty,
                                  dateNow)
            IN IF parsed.raised
               THEN [fm |-> parsed.fm, ledger |-> parsed.ledger,
                     dirty |-> cut.dirty, stats |-> cut.stats,
                     ret |-> << <<>> >>, outcome |-> "raised"]
               ELSE [fm |-> m.fm, ledger |-> parsed.ledger,
                     dirty |-> m.dirty, stats |-> cut.stats,
                     ret |-> parsed.special, outcome |-> "done"]

----------------------------------------------------------------------------
(* JSON documents *)

\* What json.load makes of a file's text: an object with its members, an
\* array with its items, a number, or text that is not JSON (ValueError).
\* Members and items are kept as the text json.dump wrote for them.
JsonObject(members) == [kind |-> "object", members |-> members]
JsonArray(items) == [kind |-> "array", items |-> items]
JsonNumber(text) == [kind |-> "number", text |-> text]
NotJson == [kind |-> "invalid"]

\* the keys of the metrics whose values are strings, and those whose values
\* are temperatures (held in hundredths); the others are whole numbers
StringKeys == {"flightBestDayDate", "todaysDate", "pirSensorLastTrigger"}
TemperatureKeys == {"lowestRoomTemp", "highestRoomTemp"}

\* json.dump of a string with nothing to escape
JsonString(str) == <<"\"">> \o str \o <<"\"">>

\* json.dump of a temperature: the digits, and the fraction when there is
\* one (json.load reads 999 and 999.0 to equal numbers)
JsonHundredths(c) ==
    LET a == IF c < 0 THEN 0 - c ELSE c
        f == a % 100
    IN (IF c < 0 THEN <<"-">> ELSE <<>>) \o NatToStr(a \div 100)
       \o (IF f = 0 THEN <<>>
           ELSE IF f % 10 = 0 THEN <<".", Digit[(f \div 10) + 1]>>
           ELSE <<".", Digit[(f \div 10) + 1], Digit[(f % 10) + 1]>>)

DigitValue(ch) == CHOOSE d \in 0..9 : Digit[d + 1] = ch

RECURSIVE StrToNat(_)
StrToNat(str) ==
    IF str = <<>> THEN 0
    ELSE StrToNat(SubSeq(str, 1, Len(str) - 1)) * 10
         + DigitValue(str[Len(str)])

\* json.load of a whole number
ParseInt(text) ==
    IF Head(text) = "-" THEN 0 - StrToNat(Tail(text)) ELSE StrToNat(text)

\* json.load of a number, in hundredths
ParseHundredths(text) ==
    LET digits == IF Head(text) = "-" THEN Tail(text) ELSE text
        dots == {i \in 1..Len(digits) : digits[i] = "."}
        a == IF dots = {} THEN StrToNat(digits) * 100
             ELSE LET dot == CHOOSE i \in dots : TRUE
                      frac == SubSeq(digits, dot + 1, Len(digits))
                  IN StrToNat(SubSeq(digits, 1, dot - 1)) * 100
                     + DigitValue(frac[1]) * 10
                     + (IF Len(frac) > 1 THEN DigitValue(frac[2]) ELSE 0)
    IN IF Head(text) = "-" THEN 0 - a ELSE a

\* json.load of a string
ParseString(text) == SubSeq(text, 2, Len(text) - 1)

\* json.dump(FLIGHT_METRICS, fp)
JsonDumpMetrics(fm) ==
    JsonObject([k \in DOMAIN fm |->
                   IF k \in StringKeys THEN JsonString(fm[k])
                   ELSE IF k \in TemperatureKeys THEN JsonHundredths(fm[k])
                   ELSE IntToStr(fm[k])])

\* json.dump(ICAO_FLIGHT_DICTIONARY, fp2)
JsonDumpLedger(ledger) ==
    JsonArray([n \in 1..Len(ledger) |-> JsonString(ledger[n])])

\* the dictionary json.load returns for an object of metrics
JsonLoadMetrics(members) ==
    [k \in DOMAIN members |->
        IF k \in StringKeys THEN ParseString(members[k])
        ELSE IF k \in TemperatureKeys THEN ParseHundredths(members[k])
        ELSE ParseInt(members[k])]

\* the list json.load returns for an array of strings
JsonLoadLedger(items) ==
    [n \in 1..Len(items) |-> ParseString(items[n])]

----------------------------------------------------------------------------
(* Persistence *)

getDateNow == DateString(today)

getTimeNow == TimeString(minute)

\* json.dump of the metrics and of the ledger into their files
writeInternalData(fm, ledger) ==
    /\ internalDataFile' = <<JsonDumpMetrics(fm)>>
    /\ icaoFile' = <<JsonDumpLedger(ledger)>>

\* the defaults are kept over the elements of the file
MergeMetricsDefaultsKept(fm, lastKnownData) ==
    [k \in (DOMAIN fm) \cup (DOMAIN lastKnownData) |->
        IF k \in DOMAIN fm THEN fm[k] ELSE lastKnownData[k]]

\* lines 212-215: every element of the file overrides the default
MergeMetrics(fm, lastKnownData) ==
    [k \in (DOMAIN fm) \cup (DOMAIN lastKnownData) |->
        IF k \in DOMAIN lastKnownData THEN lastKnownData[k] ELSE fm[k]]

\* lines 204-215 on the metrics file; how: "ok", "ValueError" (json.load
\* rejects the text) or "exit" (any other exception: len() of a number, or
\* indexing an array with one of its items, here always a string)
LoadMetrics(fm, dataFile) ==
    IF dataFile = <<>> THEN [fm |-> fm, how |-> "ok"]
    ELSE LET doc == dataFile[1]
         IN CASE doc.kind = "invalid" -> [fm |-> fm, how |-> "ValueError"]
              [] doc.kind = "number" -> [fm |-> fm, how |-> "exit"]
              [] doc.kind = "array" ->
                   [fm |-> fm,
                    how |-> IF Len(doc.items) > 0 THEN "exit" ELSE "ok"]
              [] doc.kind = "object" ->
                   [fm |-> IF Cardinality(DOMAIN doc.members) > 0
                           THEN MergeMetrics(fm, JsonLoadMetrics(doc.members))
                           ELSE fm,
                    how |-> "ok"]

\* lines 222-232 on the ledger file: a ledger of another date is discarded.
\* An object with members fails on its element 0, a number on len().
LoadLedger(ledger, ledgerFile, dateNow) ==
    IF ledgerFile = <<>> THEN [ledger |-> ledger, how |-> "ok"]
    ELSE LET doc == ledgerFile[1]
         IN CASE doc.kind = "invalid" ->
                   [ledger |-> ledger, how |-> "ValueError"]
              [] doc.kind \in {"number", "object"} ->
                   [ledger |-> ledger, how |-> "exit"]
              [] doc.kind = "array" ->
                   LET loaded == JsonLoadLedger(doc.items)
                   IN [ledger |-> IF Len(loaded) > 0 /\ loaded[1] # dateNow
                                  THEN <<dateNow>>
                                  ELSE loaded,
                       how |-> "ok"]

\* loadData on the two files given, in a fresh process.  outcome "returned":
\* the metrics and the ledger the process then holds; "exit": exit(1) of
\* line 240.  A ValueError from either file leaves the metrics as they are
\* at that point and the ledger holding the current date only.
loadDataFrom(dataFile, ledgerFile, dateNow) ==
    LET fm == defaultValues(InitialMetrics, dateNow)
        ledger == [InitialLedger EXCEPT ![1] = dateNow]
        m == LoadMetrics(fm, dataFile)
        l == LoadLedger(ledger, ledgerFile, dateNow)
    IN IF m.how = "exit"
       THEN [fm |-> m.fm, ledger |-> ledger, outcome |-> "exit"]
       ELSE IF m.how = "ValueError"
       THEN [fm |-> m.fm, ledger |-> <<dateNow>>, outcome |-> "returned"]
       ELSE IF l.how = "exit"
       THEN [fm |-> m.fm, ledger |-> ledger, outcome |-> "exit"]
       ELSE IF l.how = "ValueError"
       THEN [fm |-> m.fm, ledger |-> <<dateNow>>, outcome |-> "returned"]
       ELSE [fm |-> m.fm, ledger |-> l.ledger, outcome |-> "returned"]

\* loadData on the files as they are
loadData(dateNow) == loadDataFrom(internalDataFile, icaoFile, dateNow)

----------------------------------------------------------------------------
(* The display *)

\* the two lines as given to print_line; the padding to sixteen columns and
\* the colour of the backlight are not kept
Page(text0, text1) == [line0 |-> text0, line1 |-> text1]

\* lcd.clear()
Cleared == Page("", "")

\* reportErrorMessage: the message replaces what the display shows
reportErrorMessage(mess1, mess2) == lcd' = Page(mess1, mess2)

\* destroy: the display is cleared and its backlight switched off
destroy == lcd' = Cleared

----------------------------------------------------------------------------
(* The process *)

Running == pc \in {"tick", "check", "emergency", "shown", "write", "clear"}

Init ==
    /\ today = 1
    /\ minute = 0
    /\ sensorPin = TRUE
    /\ internalDataFile = <<>>
    /\ icaoFile = <<>>
    /\ statsFile = <<>>
    /\ FLIGHT_METRICS = defaultValues(InitialMetrics, DateString(1))
    /\ ICAO_FLIGHT_DICTIONARY = <<DateString(1)>>
    /\ DIRTY_DATA_FLAG = FALSE
    /\ backLightStatus = TRUE
    /\ specialFlights = <<>>
    /\ pc = "tick"
    /\ cbpc = "idle"
    /\ counter = 0
    /\ sleepCounter = 0
    /\ lcd = Cleared

\* loop, line 615: one call of parseFlightData on a feed of the set given.
\* An exception leaving it leaves loop() too; the finally clause of
\* __main__ writes the files and the process ends with the traceback.
Tick(feeds) ==
    /\ pc = "tick"
    /\ \E fetched \in {<<>>} \cup { <<f>> : f \in feeds } :
         LET r == parseFlightData(FLIGHT_METRICS, ICAO_FLIGHT_DICTIONARY,
                                  DIRTY_DATA_FLAG, statsFile, fetched,
                                  getDateNow)
         IN /\ Len(r.ledger) <= MaxLedger
            /\ Len(r.stats) <= MaxArchive
            /\ FLIGHT_METRICS' = r.fm
            /\ ICAO_FLIGHT_DICTIONARY' = r.ledger
            /\ DIRTY_DATA_FLAG' = r.dirty
            /\ statsFile' = r.stats
            /\ IF r.outcome = "raised"
               THEN /\ destroy
                    /\ writeInternalData(r.fm, r.ledger)
                    /\ pc' = "crashed"
                    /\ UNCHANGED specialFlights
               ELSE /\ IF r.outcome = "failed"
                       THEN reportErrorMessage("Failed to Open",
                                               "Flight URL...")
                       ELSE UNCHANGED lcd
                    /\ pc' = "check"
                    /\ specialFlights' = r.ret
                    /\ UNCHANGED <<internalDataFile, icaoFile>>
    /\ UNCHANGED <<backLightStatus, clockVars, sensorPin, cbpc, loopVars>>

\* the write is made whatever the flag says
CheckDirtyAlways ==
    /\ pc \in {"check", "shown"}
    /\ pc' = "write"
    /\ UNCHANGED displayVars
    /\ UNCHANGED <<metricsVars, DIRTY_DATA_FLAG, backLightStatus,
                   specialFlights, fileVars, clockVars, sensorPin, cbpc>>

\* what the sensor may report: a temperature in hundredths of a degree and
\* a relative humidity in percent
RoomTemperatures == {1950, 2100}
RoomHumidities == {45}

\* get_room_temp, lines 468-483: the extrema after a reading that succeeded
RoomExtrema(fm, temperature, humidity) ==
    LET lowT == IF fm.lowestRoomTemp > temperature
                THEN [fm EXCEPT !.lowestRoomTemp = temperature] ELSE fm
        highT == IF lowT.highestRoomTemp < temperature
                 THEN [lowT EXCEPT !.highestRoomTemp = temperature]
                 ELSE lowT
        lowH == IF highT.lowestRoomHumidity > humidity
                THEN [highT EXCEPT !.lowestRoomHumidity = humidity]
                ELSE highT
    IN IF lowH.highestRoomHumidity < humidity
       THEN [lowH EXCEPT !.highestRoomHumidity = humidity]
       ELSE lowH

\* loop, lines 630-631 and 649-651: an iteration whose counter has come to
\* the room page, or to the twelfth pass with the backlight off, reads the
\* sensor; chk is 0 when the reading succeeded
get_room_temp ==
    /\ pc = "check"
    /\ \E chk \in {0, -1}, temperature \in RoomTemperatures,
          humidity \in RoomHumidities :
         LET read == IF chk = 0
                     THEN RoomExtrema(FLIGHT_METRICS, temperature, humidity)
                     ELSE FLIGHT_METRICS
         IN /\ FLIGHT_METRICS' = read
            /\ DIRTY_DATA_FLAG' = (DIRTY_DATA_FLAG \/ read # FLIGHT_METRICS)
    /\ pc' = "shown"
    /\ UNCHANGED displayVars
    /\ UNCHANGED <<ICAO_FLIGHT_DICTIONARY, backLightStatus, specialFlights,
                   fileVars, clockVars, sensorPin, cbpc>>

\* loop, line 654
CheckDirty ==
    /\ pc \in {"check", "shown"}
    /\ pc' = IF DIRTY_DATA_FLAG THEN "write" ELSE "tick"
    /\ UNCHANGED displayVars
    /\ UNCHANGED <<metricsVars, DIRTY_DATA_FLAG, backLightStatus,
                   specialFlights, fileVars, clockVars, sensorPin, cbpc>>

\* loop, line 655
Write ==
    /\ pc = "write"
    /\ writeInternalData(FLIGHT_METRICS, ICAO_FLIGHT_DICTIONARY)
    /\ pc' = "clear"
    /\ UNCHANGED displayVars
    /\ UNCHANGED <<metricsVars, DIRTY_DATA_FLAG, backLightStatus,
                   specialFlights, statsFile, clockVars, sensorPin, cbpc>>

\* loop, line 656, then the sleep
ClearDirty ==
    /\ pc = "clear"
    /\ DIRTY_DATA_FLAG' = FALSE
    /\ pc' = "tick"
    /\ UNCHANGED displayVars
    /\ UNCHANGED <<metricsVars, backLightStatus, specialFlights, fileVars,
                   clockVars, sensorPin, cbpc>>

\* the write at shutdown is made only when the flag is set
handleShutdownGracefullyWhenDirty ==
    /\ IF DIRTY_DATA_FLAG
       THEN writeInternalData(FLIGHT_METRICS, ICAO_FLIGHT_DICTIONARY)
       ELSE UNCHANGED <<internalDataFile, icaoFile>>
    /\ UNCHANGED loopVars
    /\ UNCHANGED <<metricsVars, DIRTY_DATA_FLAG, backLightStatus,
                   specialFlights, statsFile, clockVars, sensorPin>>

\* handleShutdownGracefully: the write is unconditional
handleShutdownGracefully ==
    /\ writeInternalData(FLIGHT_METRICS, ICAO_FLIGHT_DICTIONARY)
    /\ UNCHANGED loopVars
    /\ UNCHANGED <<metricsVars, DIRTY_DATA_FLAG, backLightStatus,
                   specialFlights, statsFile, clockVars, sensorPin>>

\* SIGTERM: the handler saves and exits
sigterm_handler ==
    /\ Running
    /\ handleShutdownGracefully
    /\ destroy
    /\ pc' = "exited"
    /\ cbpc' = "idle"

\* Ctrl-C: the finally clause of __main__ saves
KeyboardInterrupt ==
    /\ Running
    /\ handleShutdownGracefully
    /\ destroy
    /\ pc' = "exited"
    /\ cbpc' = "idle"

\* the process is killed or the power fails: memory is lost, files stay
Kill ==
    /\ Running
    /\ pc' = "dead"
    /\ cbpc' = "idle"
    /\ FLIGHT_METRICS' = InitialMetrics
    /\ ICAO_FLIGHT_DICTIONARY' = InitialLedger
    /\ DIRTY_DATA_FLAG' = FALSE
    /\ specialFlights' = <<>>
    /\ UNCHANGED <<backLightStatus, fileVars, clockVars, sensorPin,
                   displayVars>>

\* a new process: the module-level initialisers, then setup() with loadData;
\* setup() runs outside the try of __main__, so exit(1) in loadData ends the
\* process with nothing written
Start ==
    /\ pc \in {"exited", "crashed", "dead"}
    /\ LET loaded == loadData(getDateNow)
       IN /\ FLIGHT_METRICS' = loaded.fm
          /\ ICAO_FLIGHT_DICTIONARY' = loaded.ledger
          /\ pc' = IF loaded.outcome = "exit" THEN "quit" ELSE "tick"
    /\ DIRTY_DATA_FLAG' = FALSE
    /\ backLightStatus' = sensorPin
    /\ specialFlights' = <<>>
    /\ cbpc' = "idle"
    /\ counter' = 0
    /\ sleepCounter' = 0
    /\ lcd' = Cleared
    /\ UNCHANGED <<fileVars, clockVars, sensorPin>>

\* what the metrics file may hold when a process starts: nothing, text that
\* is not JSON, a number, an empty array, an array of one string, and an
\* object of an earlier version with one member
StoredMetricsFiles ==
    { <<>>, <<NotJson>>, <<JsonNumber(<<"5">>)>>, <<JsonArray(<<>>)>>,
      <<JsonArray(<<JsonString(HexA)>>)>>,
      <<JsonObject([k \in {"flightMaxAllTime"} |-> <<"1">>])>> }

\* what the ledger file may hold when a process starts: nothing, text that
\* is not JSON, a number, an empty array, and a ledger of the first day
StoredLedgerFiles ==
    { <<>>, <<NotJson>>, <<JsonNumber(<<"5">>)>>, <<JsonArray(<<>>)>>,
      <<JsonDumpLedger(<<DateString(1), HexA>>)>> }

\* no process yet: the files are whatever was left on the disk
InitLoad ==
    /\ today = 1
    /\ minute = 0
    /\ sensorPin = TRUE
    /\ internalDataFile \in StoredMetricsFiles
    /\ icaoFile \in StoredLedgerFiles
    /\ statsFile = <<>>
    /\ FLIGHT_METRICS = InitialMetrics
    /\ ICAO_FLIGHT_DICTIONARY = InitialLedger
    /\ DIRTY_DATA_FLAG = FALSE
    /\ backLightStatus = TRUE
    /\ specialFlights = <<>>
    /\ pc = "dead"
    /\ cbpc = "idle"
    /\ counter = 0
    /\ sleepCounter = 0
    /\ lcd = Cleared

----------------------------------------------------------------------------
(* The pages of the display, loop lines 616-651 *)

\* feeds of one named aircraft that squawks 7700
EmergencyFeeds ==
    SeqsUpTo({Aircraft(<<HexA>>, <<FlightName>>, Num(10), Absent,
                       <<Squawk7700>>)},
             MaxFeed)

\* what each show function prints on the two lines, by the value of the
\* counter; the figures that follow the captions are not kept.  Nothing is
\* printed when the counter is 10.
PageOf(c) ==
    CASE c = 0 -> Page("date", "time")
      [] c \in {1, 3, 5, 7, 9} -> Page("FLIGHTS: ", "    POS: ")
      [] c \in {2, 4, 6, 8} -> Page("time", "  Daily: ")
      [] c = 10 -> lcd
      [] c = 11 -> Page("    Room: ", "Humidity: ")
      [] c = 12 -> Page("    MAX: ", "MAX POS: ")
      [] c = 13 -> Page("AT     MAX: ", "AT MAX POS: ")

\* showEmergencyAircraft, lines 572-578: the banner and the alerts, each
\* kept on the display for four seconds
EmergencyPage == Page("** Emergency **", "aircraft")

\* a call of get_room_temp from the display step
ReadRoom ==
    \E chk \in {0, -1}, temperature \in RoomTemperatures,
       humidity \in RoomHumidities :
        LET read == IF chk = 0
                    THEN RoomExtrema(FLIGHT_METRICS, temperature, humidity)
                    ELSE FLIGHT_METRICS
        IN /\ FLIGHT_METRICS' = read
           /\ DIRTY_DATA_FLAG' = (DIRTY_DATA_FLAG \/ read # FLIGHT_METRICS)

\* loop, lines 616-651: the page of this iteration.  With the backlight on
\* and the counter at 2, 4, 6 or 8, a list of one entry or more goes to
\* showEmergencyAircraft, which sleeps on its banner ("emergency") before
\* the daily count is shown; the counter moves on when the page is done.
Display ==
    /\ pc = "check"
    /\ IF backLightStatus
       THEN IF counter \in {2, 4, 6, 8} /\ Len(specialFlights) > 0
            THEN /\ lcd' = EmergencyPage
                 /\ pc' = "emergency"
                 /\ UNCHANGED <<FLIGHT_METRICS, DIRTY_DATA_FLAG, loopVars>>
            ELSE /\ lcd' = PageOf(counter)
                 /\ IF counter = 11
                    THEN ReadRoom
                    ELSE UNCHANGED <<FLIGHT_METRICS, DIRTY_DATA_FLAG>>
                 /\ counter' = IF counter + 1 > 13 THEN 0 ELSE counter + 1
                 /\ pc' = "shown"
                 /\ UNCHANGED sleepCounter
       ELSE /\ counter' = 0
            /\ sleepCounter' = IF sleepCounter + 1 > 11
                               THEN 0 ELSE sleepCounter + 1
            /\ IF sleepCounter + 1 > 11
               THEN ReadRoom
               ELSE UNCHANGED <<FLIGHT_METRICS, DIRTY_DATA_FLAG>>
            /\ pc' = "shown"
            /\ UNCHANGED lcd
    /\ UNCHANGED <<ICAO_FLIGHT_DICTIONARY, backLightStatus, specialFlights,
                   fileVars, clockVars, sensorPin, cbpc>>

\* loop, lines 627-628 and 640-643, when showEmergencyAircraft returns: the
\* daily count replaces the banner
showDailyFlightCount ==
    /\ pc = "emergency"
    /\ lcd' = PageOf(counter)
    /\ counter' = counter + 1
    /\ pc' = "shown"
    /\ UNCHANGED <<metricsVars, DIRTY_DATA_FLAG, backLightStatus,
                   specialFlights, fileVars, clockVars, sensorPin, cbpc,
                   sleepCounter>>

\* loop, line 654, in an iteration that has done its display step
LoopCheckDirty == pc = "shown" /\ CheckDirty

----------------------------------------------------------------------------
(* Writes that fail *)

\* the message is shown and the caller goes on to clear the flag
quitWithErrorMessageReturns(mess1, mess2) ==
    /\ lcd' = Page(mess1, mess2)
    /\ pc' = "clear"

\* quitWithErrorMessage: the message is shown and exit(1) raises SystemExit.
\* Raised under loop() it leaves the loop for the finally clause of __main__
\* ("quitting"); raised in the finally clause it ends the process ("quit").
quitWithErrorMessage(mess1, mess2) ==
    /\ lcd' = Page(mess1, mess2)
    /\ pc' = IF pc = "quitting" THEN "quit" ELSE "quitting"

\* writeInternalData, lines 263-274, when an open or a dump raises: what the
\* two files then hold.  open(.., 'w') empties the file it opens, so a dump
\* that stops part way leaves text that is not JSON.
FailedWrites(fm, ledger) ==
    { <<internalDataFile, icaoFile>>,
      << <<NotJson>>, icaoFile >>,
      << <<JsonDumpMetrics(fm)>>, icaoFile >>,
      << <<JsonDumpMetrics(fm)>>, <<NotJson>> >> }

\* writeInternalData, lines 275-276: whatever was raised is caught and the
\* process told to quit
writeInternalDataFails(fm, ledger) ==
    /\ \E after \in FailedWrites(fm, ledger) :
         /\ internalDataFile' = after[1]
         /\ icaoFile' = after[2]
    /\ quitWithErrorMessage("Failed to Write", "Metrics File")

\* loop, line 655, when the write fails
WriteFails ==
    /\ pc = "write"
    /\ writeInternalDataFails(FLIGHT_METRICS, ICAO_FLIGHT_DICTIONARY)
    /\ UNCHANGED <<metricsVars, DIRTY_DATA_FLAG, backLightStatus,
                   specialFlights, statsFile, clockVars, sensorPin, cbpc,
                   loopVars>>

\* checkDailyCutover, lines 303-317, when the append to the stats file
\* raises OSError: the daily state is reset and the flag set already, the
\* line of the outgoing day is not written
checkDailyCutoverFails ==
    /\ pc = "tick"
    /\ getDateNow # FLIGHT_METRICS.todaysDate
    /\ LET cut == checkDailyCutover(
                      CutoverState(FLIGHT_METRICS, ICAO_FLIGHT_DICTIONARY,
                                   DIRTY_DATA_FLAG, statsFile),
                      getDateNow)
       IN /\ FLIGHT_METRICS' = cut.fm
          /\ ICAO_FLIGHT_DICTIONARY' = cut.ledger
          /\ DIRTY_DATA_FLAG' = cut.dirty
    /\ quitWithErrorMessage("Failed to write", "Data File")
    /\ UNCHANGED <<backLightStatus, specialFlights, fileVars, clockVars,
                   sensorPin, cbpc, loopVars>>

\* __main__, lines 673-676, entered by SystemExit: destroy(), then
\* handleShutdownGracefully() writes once more; when that write fails too
\* the message is shown again and the process ends there
Finally ==
    /\ pc = "quitting"
    /\ \/ /\ writeInternalData(FLIGHT_METRICS, ICAO_FLIGHT_DICTIONARY)
          /\ destroy
          /\ pc' = "quit"
       \/ writeInternalDataFails(FLIGHT_METRICS, ICAO_FLIGHT_DICTIONARY)
    /\ cbpc' = "idle"
    /\ UNCHANGED <<metricsVars, DIRTY_DATA_FLAG, backLightStatus,
                   specialFlights, statsFile, clockVars, sensorPin,
                   loopVars>>

----------------------------------------------------------------------------
(* The motion sensor callback, run by the GPIO library in its own thread *)

\* an edge on the sensor pin; GPIO.BOTH calls the callback on either edge
SensorEdge ==
    /\ Running
    /\ cbpc = "idle"
    /\ sensorPin' = ~sensorPin
    /\ cbpc' = "called"
    /\ UNCHANGED displayVars
    /\ UNCHANGED <<metricsVars, DIRTY_DATA_FLAG, backLightStatus,
                   specialFlights, fileVars, clockVars, pc>>

\* GPIO.HIGH, line 429
PIR_High ==
    /\ Running
    /\ cbpc = "called"
    /\ sensorPin
    /\ FLIGHT_METRICS' = [FLIGHT_METRICS EXCEPT !.pirSensorLastTrigger =
                              getDateNow \o <<" ">> \o getTimeNow]
    /\ cbpc' = "high"
    /\ UNCHANGED displayVars
    /\ UNCHANGED <<ICAO_FLIGHT_DICTIONARY, DIRTY_DATA_FLAG, backLightStatus,
                   specialFlights, fileVars, clockVars, sensorPin, pc>>

\* GPIO.HIGH, lines 430-431
PIR_HighDirty ==
    /\ Running
    /\ cbpc = "high"
    /\ backLightStatus' = TRUE
    /\ DIRTY_DATA_FLAG' = TRUE
    /\ cbpc' = "idle"
    /\ UNCHANGED displayVars
    /\ UNCHANGED <<metricsVars, specialFlights, fileVars, clockVars,
                   sensorPin, pc>>

\* GPIO.LOW, lines 433-437
PIR_Low ==
    /\ Running
    /\ cbpc = "called"
    /\ ~sensorPin
    /\ backLightStatus' = FALSE
    /\ lcd' = Cleared
    /\ cbpc' = "idle"
    /\ UNCHANGED loopVars
    /\ UNCHANGED <<metricsVars, DIRTY_DATA_FLAG, specialFlights, fileVars,
                   clockVars, sensorPin, pc>>

PIR_Callback == PIR_High \/ PIR_HighDirty \/ PIR_Low

----------------------------------------------------------------------------
(* The system clock *)

\* the main thread reads the date in parseFlightData and in loadData only,
\* so a change of day is taken where it is about to read it
NewDay ==
    /\ pc = "tick" \/ ~Running
    /\ today < MaxDay
    /\ today' = today + 1
    /\ minute' = 0
    /\ UNCHANGED displayVars
    /\ UNCHANGED <<metricsVars, DIRTY_DATA_FLAG, backLightStatus,
                   specialFlights, fileVars, sensorPin, pc, cbpc>>

NewMinute ==
    /\ minute < MaxMinute
    /\ minute' = minute + 1
    /\ UNCHANGED displayVars
    /\ UNCHANGED <<metricsVars, DIRTY_DATA_FLAG, backLightStatus,
                   specialFlights, fileVars, today, sensorPin, pc, cbpc>>

----------------------------------------------------------------------------
(* Specifications *)

\* the main thread and the calendar
Next ==
    \/ Tick(CoreFeeds)
    \/ CheckDirty
    \/ Write
    \/ ClearDirty
    \/ NewDay

Spec == Init /\ [][Next]_vars

\* the main thread, the calendar, and the process stopping (gracefully or
\* not) and starting again
NextRestart ==
    \/ Tick(RestartFeeds)
    \/ CheckDirty
    \/ Write
    \/ ClearDirty
    \/ NewDay
    \/ sigterm_handler
    \/ KeyboardInterrupt
    \/ Kill
    \/ Start

SpecRestart == Init /\ [][NextRestart]_vars

\* the main thread and the motion sensor's callback thread
NextPIR ==
    \/ Tick(PlainFeeds)
    \/ CheckDirty
    \/ Write
    \/ ClearDirty
    \/ SensorEdge
    \/ PIR_High
    \/ PIR_HighDirty
    \/ PIR_Low
    \/ NewMinute
    \/ sigterm_handler

SpecPIR == Init /\ [][NextPIR]_vars

\* the main thread on feeds of every record shape
NextParse ==
    \/ Tick(ShapeFeeds)
    \/ CheckDirty
    \/ Write
    \/ ClearDirty

SpecParse == Init /\ [][NextParse]_vars

\* a process started on files of any content, then the main thread, the
\* calendar, and SIGTERM followed by a new start
NextLoad ==
    \/ Start
    \/ Tick(PlainFeeds)
    \/ CheckDirty
    \/ Write
    \/ ClearDirty
    \/ NewDay
    \/ sigterm_handler

SpecLoad == InitLoad /\ [][NextLoad]_vars

\* the main thread with the room sensor, and the calendar
NextRoom ==
    \/ Tick(PlainFeeds)
    \/ get_room_temp
    \/ CheckDirty
    \/ Write
    \/ ClearDirty
    \/ NewDay

SpecRoom == Init /\ [][NextRoom]_vars

\* the main thread with its display step, on feeds that may carry an
\* emergency, and the motion sensor's callback thread
NextDisplay ==
    \/ Tick(EmergencyFeeds)
    \/ Display
    \/ showDailyFlightCount
    \/ LoopCheckDirty
    \/ Write
    \/ ClearDirty
    \/ SensorEdge
    \/ PIR_High
    \/ PIR_HighDirty
    \/ PIR_Low

SpecDisplay == Init /\ [][NextDisplay]_vars

\* the main thread, stopped by SIGTERM or by Ctrl-C
NextShutdown ==
    \/ Tick(CoreFeeds)
    \/ CheckDirty
    \/ Write
    \/ ClearDirty
    \/ sigterm_handler
    \/ KeyboardInterrupt

SpecShutdown == Init /\ [][NextShutdown]_vars

\* the main thread and the calendar, with writes that may fail; a process
\* that is leaving through the finally clause does leave
NextFail ==
    \/ Tick(PlainFeeds)
    \/ CheckDirty
    \/ Write
    \/ WriteFails
    \/ checkDailyCutoverFails
    \/ ClearDirty
    \/ NewDay
    \/ Finally

SpecFail == Init /\ [][NextFail]_vars /\ WF_vars(Finally)

----------------------------------------------------------------------------
(* Properties *)

MaximaOrdered ==
    /\ FLIGHT_METRICS.flightMaxAllTime >= FLIGHT_METRICS.flightMax
    /\ FLIGHT_METRICS.flightMax >= 0
    /\ FLIGHT_METRICS.flightMaxPosAllTime >= FLIGHT_METRICS.flightMaxPos
    /\ FLIGHT_METRICS.flightMaxPos >= 0

\* the step is a call of parseFlightData
TickStep == pc = "tick" /\ pc' \in {"check", "crashed"}

\* the step is a call of parseFlightData that returned to the loop
TickReturned == pc = "tick" /\ pc' = "check"

\* the call of parseFlightData of this step found the stored date outdated
RolloverTick == TickStep /\ FLIGHT_METRICS.todaysDate # getDateNow

\* what parseFlightData returns when the fetch fails: [""]
FetchFailedReturn == << <<>> >>

\* C1: the all-time maxima are at least the daily maxima, which are at least
\* zero, in the default state and in every state after; and a tick that raises a
\* daily maximum above the all-time maximum raises the all-time maximum to
\* the same value in that tick.
C1_AllTimeAtLeastDaily ==
    /\ []MaximaOrdered
    /\ [][/\ (TickReturned /\ FLIGHT_METRICS'.flightMax
                                > FLIGHT_METRICS.flightMaxAllTime)
               => FLIGHT_METRICS'.flightMaxAllTime
                    = FLIGHT_METRICS'.flightMax
          /\ (TickReturned /\ FLIGHT_METRICS'.flightMaxPos
                                > FLIGHT_METRICS.flightMaxPosAllTime)
               => FLIGHT_METRICS'.flightMaxPosAllTime
                    = FLIGHT_METRICS'.flightMaxPos]_vars

\* on the second day the daily position maximum has overtaken the all-time
\* position maximum, which the archive line of the first day gives as 0
C1_Witness ==
    /\ pc = "check"
    /\ Len(statsFile) = 1
    /\ statsFile[1][7] = IntToStr(0)
    /\ statsFile[1][8] = IntToStr(1)
    /\ FLIGHT_METRICS.todaysDate = DateString(2)
    /\ FLIGHT_METRICS.flightMaxPos = 1
    /\ FLIGHT_METRICS.flightMaxPosAllTime = 1

\* C2: over a tick the all-time maxima never decrease; the daily maxima
\* never decrease while the stored date stays the same, and when one drops
\* the tick is a rollover, which reset it to zero before counting the tick's
\* own aircraft.
C2_MaximaMonotonic ==
    [][TickStep =>
        /\ FLIGHT_METRICS'.flightMaxAllTime >= FLIGHT_METRICS.flightMaxAllTime
        /\ FLIGHT_METRICS'.flightMaxPosAllTime
             >= FLIGHT_METRICS.flightMaxPosAllTime
        /\ FLIGHT_METRICS'.todaysDate = FLIGHT_METRICS.todaysDate
             => /\ FLIGHT_METRICS'.flightMax >= FLIGHT_METRICS.flightMax
                /\ FLIGHT_METRICS'.flightMaxPos >= FLIGHT_METRICS.flightMaxPos
        /\ FLIGHT_METRICS'.flightMax < FLIGHT_METRICS.flightMax
             => /\ RolloverTick
                /\ FLIGHT_METRICS'.flightMax
                     \in {0, FLIGHT_METRICS'.flightSeen}
        /\ FLIGHT_METRICS'.flightMaxPos < FLIGHT_METRICS.flightMaxPos
             => /\ RolloverTick
                /\ FLIGHT_METRICS'.flightMaxPos
                     \in {0, FLIGHT_METRICS'.flightSeenPos}]_vars

\* after a rollover the daily maximum is below the all-time maximum that
\* the first day reached
C2_Witness ==
    /\ pc = "check"
    /\ Len(statsFile) = 1
    /\ FLIGHT_METRICS.todaysDate = DateString(2)
    /\ FLIGHT_METRICS.flightMax = 0
    /\ FLIGHT_METRICS.flightMaxPos = 0
    /\ FLIGHT_METRICS.flightMaxAllTime = 1
    /\ FLIGHT_METRICS.flightMaxPosAllTime = 1

\* C3: the ledger never holds the same aircraft identifier twice.
C3_NoDuplicateIdentifier ==
    \A i, j \in 2..Len(ICAO_FLIGHT_DICTIONARY) :
        i # j => ICAO_FLIGHT_DICTIONARY[i] # ICAO_FLIGHT_DICTIONARY[j]

\* C4: after a tick that aggregated a fetched feed, flightDailyTotal is the
\* number of identifiers in the ledger: its length less the date slot.
C4_DailyTotalCountsIdentifiers ==
    (pc = "check" /\ specialFlights # FetchFailedReturn)
        => FLIGHT_METRICS.flightDailyTotal = Len(ICAO_FLIGHT_DICTIONARY) - 1

\* the number of archive lines written for a date
RECURSIVE LinesFor(_, _)
LinesFor(stats, date) ==
    IF stats = <<>> THEN 0
    ELSE (IF Head(stats)[1] = date THEN 1 ELSE 0)
         + LinesFor(Tail(stats), date)

\* C5: whenever a tick rolls the stored date over, the archive then holds
\* exactly one line for the outgoing date, stops and restarts included.
C5_OneArchiveLinePerDate ==
    [][RolloverTick
         => LinesFor(statsFile', FLIGHT_METRICS.todaysDate) = 1]_vars

\* C6: for every date, a second call of checkDailyCutover on that date
\* changes nothing the first call left: metrics, ledger, archive, dirty flag.
C6_CutoverIdempotent ==
    \A d \in 1..MaxDay :
        LET once == checkDailyCutover(
                        CutoverState(FLIGHT_METRICS, ICAO_FLIGHT_DICTIONARY,
                                     DIRTY_DATA_FLAG, statsFile),
                        DateString(d))
        IN checkDailyCutover(once, DateString(d)) = once

\* the loop is about to tick with counts of the day before in the metrics
C6_Witness ==
    /\ pc = "tick"
    /\ FLIGHT_METRICS.todaysDate # getDateNow
    /\ FLIGHT_METRICS.flightMax > 0
    /\ Len(ICAO_FLIGHT_DICTIONARY) > 1
    /\ ~DIRTY_DATA_FLAG

\* what checkDailyCutover returns from the current state on day d
CutoverOn(d) ==
    checkDailyCutover(CutoverState(FLIGHT_METRICS, ICAO_FLIGHT_DICTIONARY,
                                   DIRTY_DATA_FLAG, statsFile),
                      DateString(d))

\* checkDailyCutover, called on a date other than the stored one, returns
\* the daily maxima and the daily total at 0, the ledger holding that date
\* only, todaysDate at that date, the dirty flag set and one more line
CutoverResets ==
    \A d \in 1..MaxDay :
        DateString(d) # FLIGHT_METRICS.todaysDate
            => LET r == CutoverOn(d)
               IN /\ r.fm.flightMax = 0
                  /\ r.fm.flightMaxPos = 0
                  /\ r.fm.flightDailyTotal = 0
                  /\ r.fm.todaysDate = DateString(d)
                  /\ r.ledger = <<DateString(d)>>
                  /\ r.dirty
                  /\ Len(r.stats) = Len(statsFile) + 1

\* C7: checkDailyCutover, run with a stored date other than the current
\* one, resets the daily maxima and the daily total to 0, leaves the ledger
\* holding the current date only, stores that date and sets the dirty flag;
\* and a tick that finds the stored date outdated appends one archive line
\* with the outgoing date and the outgoing day's total and maxima as they
\* were before the reset, and returns with the current date in the metrics
\* and in the ledger's first slot and with the dirty flag set (with the
\* reset values themselves when the fetch failed and nothing was
\* aggregated on top).
C7_RolloverEffects ==
    /\ []CutoverResets
    /\ [][RolloverTick =>
            (/\ Len(statsFile') = Len(statsFile) + 1
             /\ SubSeq(statsFile', 1, Len(statsFile)) = statsFile
             /\ LET line == statsFile'[Len(statsFile')]
                IN /\ line[1] = FLIGHT_METRICS.todaysDate
                   /\ line[2] = IntToStr(FLIGHT_METRICS.flightDailyTotal)
                   /\ {line[5], line[6]}
                        = {IntToStr(FLIGHT_METRICS.flightMax),
                           IntToStr(FLIGHT_METRICS.flightMaxPos)}
             /\ FLIGHT_METRICS'.todaysDate = getDateNow
             /\ ICAO_FLIGHT_DICTIONARY'[1] = getDateNow
             /\ DIRTY_DATA_FLAG'
             /\ (pc' = "check" /\ specialFlights' = FetchFailedReturn)
                  => /\ FLIGHT_METRICS'.flightMax = 0
                     /\ FLIGHT_METRICS'.flightMaxPos = 0
                     /\ FLIGHT_METRICS'.flightDailyTotal = 0
                     /\ ICAO_FLIGHT_DICTIONARY' = <<getDateNow>>)]_vars

\* a rollover whose fetch failed has archived a day with two aircraft
C7_Witness ==
    /\ pc = "check"
    /\ specialFlights = FetchFailedReturn
    /\ Len(statsFile) = 1
    /\ statsFile[1][1] = DateString(1)
    /\ statsFile[1][2] = IntToStr(3)
    /\ FLIGHT_METRICS.todaysDate = DateString(2)
    /\ FLIGHT_METRICS.flightDailyTotal = 0
    /\ ICAO_FLIGHT_DICTIONARY = <<DateString(2)>>
    /\ DIRTY_DATA_FLAG

\* C8: a tick that raises one of the counters of step 4 returns with the
\* dirty flag set.
C8_RaisedCounterSetsDirty ==
    [][(/\ TickReturned
        /\ \/ FLIGHT_METRICS'.flightMax > FLIGHT_METRICS.flightMax
           \/ FLIGHT_METRICS'.flightMaxPos > FLIGHT_METRICS.flightMaxPos
           \/ FLIGHT_METRICS'.flightMaxAllTime
                > FLIGHT_METRICS.flightMaxAllTime
           \/ FLIGHT_METRICS'.flightMaxPosAllTime
                > FLIGHT_METRICS.flightMaxPosAllTime
           \/ FLIGHT_METRICS'.flightDailyTotal
                > FLIGHT_METRICS.flightDailyTotal
           \/ FLIGHT_METRICS'.flightBestDayTotal
                > FLIGHT_METRICS.flightBestDayTotal)
         => DIRTY_DATA_FLAG']_vars

\* the step calls writeInternalData from the loop
LoopWrite == pc = "write" /\ pc' = "clear"

\* the step calls writeInternalData through handleShutdownGracefully
ShutdownWrite == Running /\ pc' \in {"exited", "crashed"}

\* C9 as stated: at every call site writeInternalData is called only with
\* the dirty flag set, and the flag is false once the write is done.
C9_WriteOnlyWhenDirty ==
    [][/\ (LoopWrite \/ ShutdownWrite) => DIRTY_DATA_FLAG
       /\ (pc = "clear" /\ pc' = "tick") => ~DIRTY_DATA_FLAG'
       /\ ShutdownWrite => ~DIRTY_DATA_FLAG']_vars

\* C9 amended: the loop calls writeInternalData only with the dirty flag
\* set and sets the flag to false when the write has returned; a stop
\* through handleShutdownGracefully writes the metrics and the ledger
\* whatever the flag says and does not clear it.
C9_LoopWriteOnlyWhenDirty ==
    [][/\ pc = "write" => DIRTY_DATA_FLAG
       /\ LoopWrite
            => /\ internalDataFile' = <<JsonDumpMetrics(FLIGHT_METRICS)>>
               /\ icaoFile' = <<JsonDumpLedger(ICAO_FLIGHT_DICTIONARY)>>
       /\ (pc = "clear" /\ pc' = "tick") => ~DIRTY_DATA_FLAG'
       /\ ShutdownWrite
            => /\ internalDataFile' = <<JsonDumpMetrics(FLIGHT_METRICS')>>
               /\ icaoFile' = <<JsonDumpLedger(ICAO_FLIGHT_DICTIONARY')>>
               /\ DIRTY_DATA_FLAG => DIRTY_DATA_FLAG']_vars

\* the loop has written a raised maximum and cleared the flag
C9_Witness ==
    /\ pc = "tick"
    /\ ~DIRTY_DATA_FLAG
    /\ FLIGHT_METRICS.flightMax > 0
    /\ internalDataFile = <<JsonDumpMetrics(FLIGHT_METRICS)>>
    /\ icaoFile = <<JsonDumpLedger(ICAO_FLIGHT_DICTIONARY)>>

\* C10: at the loop's dirty check, with no callback under way, a
\* pirSensorLastTrigger that differs from the value in the metrics file
\* comes with the dirty flag set.
C10_NoLostTrigger ==
    (/\ pc = "check"
     /\ cbpc = "idle"
     /\ internalDataFile # <<>>
     /\ internalDataFile[1].members.pirSensorLastTrigger
          # JsonString(FLIGHT_METRICS.pirSensorLastTrigger))
        => DIRTY_DATA_FLAG

\* the tick's fetch failed: parseFlightData returned [""] to the loop
FetchFailedTick ==
    TickReturned /\ specialFlights' = FetchFailedReturn

\* C11: a tick whose fetch fails changes no per-tick counter, no maximum,
\* not the daily total and no identifier of the ledger; any other tick
\* leaves its updates applied in full: every aircraft counted is counted
\* as named or as unnamed, the daily maxima are at least the tick's counts,
\* the all-time maxima at least the daily ones, and the daily total is the
\* one taken from the ledger the tick left.
C11_NoPartialAggregation ==
    [][TickStep =>
        /\ FetchFailedTick
             => /\ \A k \in {"flightCount", "flightWithName", "flightInvalid",
                              "flightSeen", "flightSeenPos", "flightMax",
                              "flightMaxPos", "flightMaxAllTime",
                              "flightMaxPosAllTime", "flightDailyTotal"} :
                      FLIGHT_METRICS'[k] = FLIGHT_METRICS[k]
                /\ Tail(ICAO_FLIGHT_DICTIONARY')
                     = Tail(ICAO_FLIGHT_DICTIONARY)
        /\ ~FetchFailedTick
             => /\ FLIGHT_METRICS'.flightCount
                     = FLIGHT_METRICS'.flightWithName
                       + FLIGHT_METRICS'.flightInvalid
                /\ FLIGHT_METRICS'.flightMax >= FLIGHT_METRICS'.flightSeen
                /\ FLIGHT_METRICS'.flightMaxPos
                     >= FLIGHT_METRICS'.flightSeenPos
                /\ FLIGHT_METRICS'.flightMaxAllTime
                     >= FLIGHT_METRICS'.flightMax
                /\ FLIGHT_METRICS'.flightMaxPosAllTime
                     >= FLIGHT_METRICS'.flightMaxPos
                /\ FLIGHT_METRICS'.flightDailyTotal
                     = Len(ICAO_FLIGHT_DICTIONARY')]_vars

\* C12: no call of parseFlightData on a fetched feed ends in an exception,
\* whatever fields its records have.
C12_ParseNeverRaises == pc # "crashed"

\* the step is loadData in a new process
StartStep == pc \in {"exited", "crashed", "dead"} /\ pc' \in {"tick", "quit"}

\* the ledger file is not one that ends loadData by itself
LedgerFileLoads ==
    icaoFile = <<>> \/ icaoFile[1].kind \in {"array", "invalid"}

\* C13: when the metrics file is there but does not hold a JSON object
\* (and the ledger file is absent, an array, or not JSON), loadData returns
\* to setup() and FLIGHT_METRICS is the default snapshot.
C13_MalformedMetricsFallsBack ==
    [][(/\ StartStep
        /\ internalDataFile # <<>>
        /\ internalDataFile[1].kind # "object"
        /\ LedgerFileLoads)
         => /\ pc' = "tick"
            /\ FLIGHT_METRICS' = defaultValues(InitialMetrics, getDateNow)]_vars

\* what loadData returns in a new process started now on the files
\* writeInternalData writes now
LoadOfSaved ==
    loadDataFrom(<<JsonDumpMetrics(FLIGHT_METRICS)>>,
                 <<JsonDumpLedger(ICAO_FLIGHT_DICTIONARY)>>, getDateNow)

\* C14 as stated: from every state of a running process, writeInternalData
\* followed at once by loadData gives back FLIGHT_METRICS equal in every
\* field and the ledger equal to the saved one.
C14_RoundTrip ==
    Running => /\ LoadOfSaved.outcome = "returned"
               /\ LoadOfSaved.fm = FLIGHT_METRICS
               /\ LoadOfSaved.ledger = ICAO_FLIGHT_DICTIONARY

\* C14 amended: from every state of a running process, writeInternalData
\* followed at once by loadData gives back FLIGHT_METRICS equal in every
\* field; the ledger comes back equal to the saved one when its first slot
\* holds the date of the load (or it is empty), and as a ledger holding
\* that date only when its first slot holds another date.
C14_RoundTripOfCurrentLedger ==
    Running =>
        /\ LoadOfSaved.outcome = "returned"
        /\ LoadOfSaved.fm = FLIGHT_METRICS
        /\ (ICAO_FLIGHT_DICTIONARY = <<>>
             \/ ICAO_FLIGHT_DICTIONARY[1] = getDateNow)
              => LoadOfSaved.ledger = ICAO_FLIGHT_DICTIONARY
        /\ (ICAO_FLIGHT_DICTIONARY # <<>>
             /\ ICAO_FLIGHT_DICTIONARY[1] # getDateNow)
              => LoadOfSaved.ledger = <<getDateNow>>

\* a process stopped after the first day's tick and started on the second
\* day holds the saved metrics and a ledger of the second day
C14_Witness ==
    /\ pc = "tick"
    /\ today = 2
    /\ FLIGHT_METRICS.todaysDate = DateString(1)
    /\ FLIGHT_METRICS.flightMax = 1
    /\ internalDataFile = <<JsonDumpMetrics(FLIGHT_METRICS)>>
    /\ icaoFile = <<JsonDumpLedger(<<DateString(1), HexA>>)>>
    /\ ICAO_FLIGHT_DICTIONARY = <<DateString(2)>>

\* what parseFlightData does from the current state with what was fetched
ParseOn(fetched) ==
    parseFlightData(FLIGHT_METRICS, ICAO_FLIGHT_DICTIONARY, DIRTY_DATA_FLAG,
                    statsFile, fetched, getDateNow)

\* C15: when parseFlightData is about to run, whatever feed it then fetches
\* and aggregates to the end, every identifier of a record of that feed is
\* in the ledger it leaves (without its surrounding blanks).
C15_IdentifiersReachLedger ==
    pc = "tick" =>
        \A f \in ShapeFeeds :
            LET r == ParseOn(<<f>>)
            IN r.outcome = "done" =>
                 \A n \in 1..Len(f) :
                     f[n].hex # <<>>
                         => InList(Strip(f[n].hex[1]), r.ledger)

\* the alert of a record: its code, then its flight name or, without one,
\* its identifier
AlertOf(i) ==
    i.squawk[1] \o <<":", " ">>
    \o (IF i.flight # <<>> THEN Strip(i.flight[1])
        ELSE IF i.hex # <<>> THEN Strip(i.hex[1])
        ELSE <<>>)

\* one alert for each record of the feed that carries a special code, in
\* the order of the feed
RECURSIVE ExpectedAlerts(_)
ExpectedAlerts(f) ==
    IF f = <<>> THEN <<>>
    ELSE (IF Head(f).squawk # <<>>
             /\ InList(Head(f).squawk[1], SPECIAL_SQUAWK_CODES)
          THEN <<AlertOf(Head(f))>>
          ELSE <<>>)
         \o ExpectedAlerts(Tail(f))

\* the entry is a special code, a colon and a blank, and a name
IsAlert(entry) ==
    /\ Len(entry) >= 6
    /\ InList(SubSeq(entry, 1, 4), SPECIAL_SQUAWK_CODES)
    /\ SubSeq(entry, 5, 6) = <<":", " ">>

\* C16: when parseFlightData is about to run, whatever feed it then fetches
\* and aggregates to the end, the list it returns holds one alert for each
\* record with a special code, in feed order, and nothing else; and the
\* list a tick has handed to the loop, fetch failures included, holds
\* nothing but alerts.
C16_AlertsMatchSpecialSquawks ==
    /\ pc = "tick" =>
          \A f \in ShapeFeeds :
              LET r == ParseOn(<<f>>)
              IN r.outcome = "done" => r.ret = ExpectedAlerts(f)
    /\ pc = "check" =>
          \A n \in 1..Len(specialFlights) : IsAlert(specialFlights[n])

\* the line the step appended to the archive
NewLine == statsFile'[Len(statsFile')]

\* C17 as stated: the line a rollover appends gives the outgoing date, the
\* daily total, the best-day total, the best-day date, the daily maximum,
\* the daily position maximum, the all-time maximum, the all-time position
\* maximum, the lowest and the highest temperature, in that order.
C17_ArchiveFieldOrder ==
    [][RolloverTick =>
         NewLine = << FLIGHT_METRICS.todaysDate,
                      IntToStr(FLIGHT_METRICS.flightDailyTotal),
                      IntToStr(FLIGHT_METRICS.flightBestDayTotal),
                      FLIGHT_METRICS.flightBestDayDate,
                      IntToStr(FLIGHT_METRICS.flightMax),
                      IntToStr(FLIGHT_METRICS.flightMaxPos),
                      IntToStr(FLIGHT_METRICS.flightMaxAllTime),
                      IntToStr(FLIGHT_METRICS.flightMaxPosAllTime),
                      FormatTwoDecimals(FLIGHT_METRICS.lowestRoomTemp),
                      FormatTwoDecimals(FLIGHT_METRICS.highestRoomTemp) >>]_vars

\* C17 amended: the line a rollover appends gives the outgoing date, the
\* daily total, the best-day total, the best-day date, the daily position
\* maximum, the daily maximum, the all-time position maximum, the all-time
\* maximum, the lowest and the highest temperature, in that order.
C17_ArchiveFieldOrderPositionFirst ==
    [][RolloverTick =>
         NewLine = << FLIGHT_METRICS.todaysDate,
                      IntToStr(FLIGHT_METRICS.flightDailyTotal),
                      IntToStr(FLIGHT_METRICS.flightBestDayTotal),
                      FLIGHT_METRICS.flightBestDayDate,
                      IntToStr(FLIGHT_METRICS.flightMaxPos),
                      IntToStr(FLIGHT_METRICS.flightMax),
                      IntToStr(FLIGHT_METRICS.flightMaxPosAllTime),
                      IntToStr(FLIGHT_METRICS.flightMaxAllTime),
                      FormatTwoDecimals(FLIGHT_METRICS.lowestRoomTemp),
                      FormatTwoDecimals(FLIGHT_METRICS.highestRoomTemp) >>]_vars

\* the first day's line tells the maxima apart: an aircraft was heard but
\* gave no position
C17_Witness ==
    /\ pc = "check"
    /\ Len(statsFile) = 1
    /\ statsFile[1][1] = DateString(1)
    /\ statsFile[1][5] = IntToStr(0)
    /\ statsFile[1][6] = IntToStr(1)
    /\ statsFile[1][7] = IntToStr(0)
    /\ statsFile[1][8] = IntToStr(1)
    /\ statsFile[1][9] = <<"9", "9", "9", ".", "0", "0">>
    /\ statsFile[1][10] = <<"-", "2", "7", "3", ".", "1", "5">>

\* identifiers in the ledger stand under the stored date
LedgerUnderStoredDate ==
    (Running /\ Len(ICAO_FLIGHT_DICTIONARY) > 1)
        => ICAO_FLIGHT_DICTIONARY[1] = FLIGHT_METRICS.todaysDate

\* C18: a running process never holds identifiers in the ledger under a
\* date other than todaysDate; and after every call of parseFlightData,
\* the first after loadData on any files included, todaysDate is the date
\* read by its rollover check and the ledger's first slot holds that date.
C18_DateFollowsRolloverCheck ==
    /\ []LedgerUnderStoredDate
    /\ [][TickStep =>
            /\ FLIGHT_METRICS'.todaysDate = getDateNow
            /\ Len(ICAO_FLIGHT_DICTIONARY') >= 1
            /\ ICAO_FLIGHT_DICTIONARY'[1] = getDateNow]_vars

\* C19: over a call of parseFlightData, rollovers included,
\* flightBestDayTotal does not decrease, and flightBestDayDate changes only
\* when the daily total the tick leaves is above the best-day total it
\* found.
C19_BestDayNeverDecreases ==
    [][TickStep =>
         /\ FLIGHT_METRICS'.flightBestDayTotal
              >= FLIGHT_METRICS.flightBestDayTotal
         /\ FLIGHT_METRICS'.flightBestDayDate
              # FLIGHT_METRICS.flightBestDayDate
               => FLIGHT_METRICS'.flightDailyTotal
                    > FLIGHT_METRICS.flightBestDayTotal]_vars

\* the fields the daily reset is not to touch
KeptByRollover ==
    {"flightMaxAllTime", "flightMaxPosAllTime", "lowestRoomHumidity",
     "highestRoomHumidity", "flightBestDayDate", "pirSensorLastTrigger"}

\* checkDailyCutover, called on a date other than the stored one, returns
\* the kept fields as they are and the two temperatures at their resets
CutoverKeeps ==
    \A d \in 1..MaxDay :
        DateString(d) # FLIGHT_METRICS.todaysDate
            => LET r == CutoverOn(d)
               IN /\ \A k \in KeptByRollover : r.fm[k] = FLIGHT_METRICS[k]
                  /\ r.fm.lowestRoomTemp = 100000
                  /\ r.fm.highestRoomTemp = -27315

\* C20: a rollover leaves the all-time maxima, the humidity extrema, the
\* best-day date and the last trigger time as they were and resets the two
\* temperatures: so checkDailyCutover returns them from every state, and so
\* a tick that rolls over hands them to the loop (the all-time maxima and
\* the best-day date when the fetch failed and nothing was aggregated
\* after the reset).
C20_RolloverKeepsAllTime ==
    /\ []CutoverKeeps
    /\ [][RolloverTick =>
            /\ \A k \in {"lowestRoomHumidity", "highestRoomHumidity",
                          "pirSensorLastTrigger"} :
                   FLIGHT_METRICS'[k] = FLIGHT_METRICS[k]
            /\ FLIGHT_METRICS'.lowestRoomTemp = 100000
            /\ FLIGHT_METRICS'.highestRoomTemp = -27315
            /\ FetchFailedTick
                 => \A k \in KeptByRollover :
                        FLIGHT_METRICS'[k] = FLIGHT_METRICS[k]]_vars

\* a rollover whose fetch failed has archived the first day's temperatures
\* and reset them; the humidities and the all-time maximum of that day stay
C20_Witness ==
    /\ pc = "check"
    /\ specialFlights = FetchFailedReturn
    /\ FLIGHT_METRICS.todaysDate = DateString(2)
    /\ Len(statsFile) = 1
    /\ statsFile[1][9] = <<"1", "9", ".", "5", "0">>
    /\ statsFile[1][10] = <<"2", "1", ".", "0", "0">>
    /\ FLIGHT_METRICS.lowestRoomTemp = 100000
    /\ FLIGHT_METRICS.highestRoomTemp = -27315
    /\ FLIGHT_METRICS.lowestRoomHumidity = 45
    /\ FLIGHT_METRICS.highestRoomHumidity = 45
    /\ FLIGHT_METRICS.flightMaxAllTime = 1
    /\ FLIGHT_METRICS.flightBestDayDate = DateString(1)

----------------------------------------------------------------------------
(* C21 *)

\* a step in which a write to the metrics file, the ledger file or the
\* stats archive fails
FailedWrite == WriteFails \/ checkDailyCutoverFails

\* the messages of quitWithErrorMessage's two callers
ErrorPages ==
    { Page("Failed to Write", "Metrics File"),
      Page("Failed to write", "Data File") }

\* a failed write shows its message and leaves the loop, the flag still set
FailedWriteQuits ==
    FailedWrite =>
        /\ lcd' \in ErrorPages
        /\ pc' = "quitting"
        /\ DIRTY_DATA_FLAG'

\* a process that is leaving runs no tick and clears no flag
QuitIsFinal ==
    pc \in {"quitting", "quit"} =>
        /\ pc' \in {"quitting", "quit"}
        /\ UNCHANGED <<metricsVars, DIRTY_DATA_FLAG, specialFlights,
                       statsFile>>

\* C21: a failed write to the metrics file, the ledger file or the stats
\* archive puts its error message on the display, leaves the loop with the
\* dirty flag as it was (set), is followed by no further tick and no
\* clearing of the flag, and the process reaches exit.
C21_FailedWriteIsFatal ==
    /\ [][FailedWriteQuits /\ QuitIsFinal]_vars
    /\ (pc = "quitting") ~> (pc = "quit")

C21_Witness ==
    /\ pc = "quitting"
    /\ lcd = Page("Failed to Write", "Metrics File")
    /\ DIRTY_DATA_FLAG
    /\ internalDataFile = <<NotJson>>
    /\ statsFile # <<>>

----------------------------------------------------------------------------
(* C22 *)

\* a tick whose fetch failed and which found the stored date outdated has
\* appended the line of the outgoing date, left the daily state reset under
\* the current date, and set the dirty flag
FailedFetchRollsOver ==
    (RolloverTick /\ FetchFailedTick) =>
        /\ Len(statsFile') = Len(statsFile) + 1
        /\ statsFile'[Len(statsFile')][1] = FLIGHT_METRICS.todaysDate
        /\ FLIGHT_METRICS'.todaysDate = getDateNow
        /\ FLIGHT_METRICS'.flightMax = 0
        /\ FLIGHT_METRICS'.flightMaxPos = 0
        /\ FLIGHT_METRICS'.flightDailyTotal = 0
        /\ ICAO_FLIGHT_DICTIONARY' = <<getDateNow>>
        /\ DIRTY_DATA_FLAG'

\* an iteration whose tick left the flag set goes on to write the metrics
\* and the ledger as the tick left them, and only then to the next tick
DirtyIterationWrites ==
    /\ (pc = "check" /\ DIRTY_DATA_FLAG)
         => (pc' = "write" /\ UNCHANGED metricsVars)
    /\ pc = "write"
         => /\ pc' = "clear"
            /\ UNCHANGED metricsVars
            /\ internalDataFile' = <<JsonDumpMetrics(FLIGHT_METRICS)>>
            /\ icaoFile' = <<JsonDumpLedger(ICAO_FLIGHT_DICTIONARY)>>
    /\ pc = "clear"
         => (pc' = "tick" /\ UNCHANGED <<metricsVars, fileVars>>)

\* C22: a tick whose fetch fails on a changed date appends the outgoing
\* day's archive line, resets the daily state and sets the dirty flag, and
\* the iteration of that tick writes the reset metrics and ledger to their
\* files before the next tick starts.
C22_FailedFetchStillRollsOver ==
    [][FailedFetchRollsOver /\ DirtyIterationWrites]_vars

\* the iteration of a rollover whose fetch failed has ended: the line of
\* day 1 is in the archive and the files hold the reset state of day 2
C22_Witness ==
    /\ pc = "tick"
    /\ specialFlights = FetchFailedReturn
    /\ ~DIRTY_DATA_FLAG
    /\ Len(statsFile) = 1
    /\ statsFile[1][1] = DateString(1)
    /\ FLIGHT_METRICS.todaysDate = DateString(2)
    /\ FLIGHT_METRICS.flightDailyTotal = 0
    /\ FLIGHT_METRICS.flightMaxAllTime > 0
    /\ internalDataFile = <<JsonDumpMetrics(FLIGHT_METRICS)>>
    /\ icaoFile = <<JsonDumpLedger(<<DateString(2)>>)>>

----------------------------------------------------------------------------
(* C23 *)

\* C23: while showEmergencyAircraft holds its banner on the display, the
\* list the tick of that iteration returned holds an alert of a special
\* squawk code; it is neither the list of a failed fetch nor that of a feed
\* without traffic.
C23_EmergencyOnlyOnSpecialSquawk ==
    pc = "emergency" =>
        /\ specialFlights # FetchFailedReturn
        /\ \E n \in 1..Len(specialFlights) : IsAlert(specialFlights[n])

----------------------------------------------------------------------------
(* C24 *)

\* the two files hold the metrics and the ledger of the memory
FilesEqualMemory ==
    /\ internalDataFile = <<JsonDumpMetrics(FLIGHT_METRICS)>>
    /\ icaoFile = <<JsonDumpLedger(ICAO_FLIGHT_DICTIONARY)>>

\* the step ends the process through sigterm_handler or through the
\* KeyboardInterrupt clause of __main__
GracefulExit == Running /\ pc' = "exited"

\* C24: a process in its loop that is ended by SIGTERM or by Ctrl-C leaves
\* with its metrics and ledger as they were when the signal came, and with
\* the metrics file and the ledger file holding exactly those, whatever
\* the dirty flag says.
C24_ShutdownSavesMemory ==
    /\ [](pc = "exited" => FilesEqualMemory)
    /\ [][GracefulExit => UNCHANGED <<metricsVars, DIRTY_DATA_FLAG>>]_vars

\* the process has left with the flag clear and with a second identifier
\* in the ledger that raised no maximum, and the files hold it
C24_Witness ==
    /\ pc = "exited"
    /\ ~DIRTY_DATA_FLAG
    /\ Len(ICAO_FLIGHT_DICTIONARY) = 3
    /\ FLIGHT_METRICS.flightMax = 1
    /\ FLIGHT_METRICS.flightDailyTotal = 3
    /\ FilesEqualMemory
====
